---- MODULE Spec2Model ----
(***************************************************************************)
(* Model of src/python/md_to_docx.py: MarkdownToDocxConverter.             *)
(*                                                                         *)
(* A document is a sequence of tokens.  Each token stands for one fixed    *)
(* piece of text:                                                          *)
(*     "F" = "```"     "M" = "mermaid"     "s" = "\n" (whitespace)         *)
(*     "a" = "A"       "b" = "B"           (ordinary text)                 *)
(* MERMAID_BLOCK_PATTERN is modelled on tokens by the backtracking order   *)
(* of the regular expression engine (greedy \s+, lazy .*?, greedy \s+).    *)
(* The output text is a sequence of the same tokens plus image-reference   *)
(* tokens, so every token is a record [c, path, attrs].                    *)
(***************************************************************************)
EXTENDS Integers, Sequences, FiniteSets, TLC

VARIABLES
    fs,                 \* files on disk: set of [path, content]
    images_dir_exists,  \* self.images_dir exists
    pc,                 \* "idle", or "sub" inside MERMAID_BLOCK_PATTERN.sub
    call,               \* arguments of the call in progress
    pos,                \* scan position of re.sub in md_content
    processed_content,  \* output text built so far
    generated_images,   \* generated_images of the call in progress
    log,                \* one entry per replace_match invocation of the call
    result,             \* outcome of the last finished call
    calls,              \* number of calls started
    segs_used,          \* document segments handed to the calls so far
    img,                \* the image handed to _calculate_image_layout
    layout              \* its returned attribute string ("" before the call)

vars == <<fs, images_dir_exists, pc, call, pos, processed_content,
          generated_images, log, result, calls, segs_used, img, layout>>

pipeVars == <<fs, images_dir_exists, pc, call, pos, processed_content,
              generated_images, log, result, calls, segs_used>>

layoutVars == <<img, layout>>

(***************************************************************************)
(* Bounds of the model.                                                    *)
(***************************************************************************)
MaxWork == 4        \* calls plus document segments, summed over all calls
MaxDelFailures == 1 \* files whose deletion fails in one _cleanup
HashBits == 3       \* width of the modelled string hash
MaxWidthPx == 640   \* image widths 0..MaxWidthPx in the layout check
MaxHeightPx == 900  \* image heights 0..MaxHeightPx in the layout check

(***************************************************************************)
(* Program constants.                                                      *)
(***************************************************************************)
A4_PRINT_WIDTH_PX == 624
A4_PRINT_HEIGHT_PX == 888

(***************************************************************************)
(* Generic helpers.                                                        *)
(***************************************************************************)
Min(S) == CHOOSE x \in S : \A y \in S : x <= y

Abs(n) == IF n < 0 THEN -n ELSE n

Range(f) == {f[i] : i \in DOMAIN f}

RECURSIVE SeqsUpTo(_, _)
SeqsUpTo(S, n) ==
    IF n = 0 THEN {<<>>}
    ELSE LET R == SeqsUpTo(S, n - 1)
         IN  R \cup {Append(r, x) : r \in {q \in R : Len(q) = n - 1}, x \in S}

RECURSIVE Flatten(_)
Flatten(ss) == IF ss = <<>> THEN <<>> ELSE Head(ss) \o Flatten(Tail(ss))

(***************************************************************************)
(* Tokens and paths.                                                       *)
(***************************************************************************)
NoPath == <<>>

T(c) == [c |-> c, path |-> NoPath, attrs |-> ""]

Lift(s) == [i \in 1..Len(s) |-> T(s[i])]

ImagePath(run, h) == <<"images", run, h>>

TempMdPath(run) == <<"temp", run, 0>>

ProcessedMdPath(run) == <<"processed", run, 0>>

IsImage(p) == p[1] = "images"

(***************************************************************************)
(* _calculate_image_layout (lines 76-109).  A file content is              *)
(* [complete, decodable, w, h]; Image.open raises on an undecodable file   *)
(* and w / h raises ZeroDivisionError for h = 0, both caught by the        *)
(* except clause.  The float comparison w/h > 624/888 is decided here by   *)
(* the cross product: both quotients are correctly rounded, equal ratios   *)
(* give equal floats, and unequal ratios of pixel sizes differ by far more *)
(* than one ulp.  int(w/624*100) equals the integer quotient 100w div 624  *)
(* for every w >= 0 in the range of pixel sizes.                           *)
(***************************************************************************)
\* Variant: the percentage rounded to the nearest integer, ties to even.
PercentRounded(width_px) ==
    LET q == (width_px * 100) \div A4_PRINT_WIDTH_PX
        r == (width_px * 100) % A4_PRINT_WIDTH_PX
    IN  IF 2 * r > A4_PRINT_WIDTH_PX THEN q + 1
        ELSE IF 2 * r < A4_PRINT_WIDTH_PX THEN q
        ELSE IF q % 2 = 0 THEN q ELSE q + 1

Percent(width_px) == (width_px * 100) \div A4_PRINT_WIDTH_PX

\* Variant: the page ratio itself counted as landscape.
WiderThanPageGe(width_px, height_px) ==
    width_px * A4_PRINT_HEIGHT_PX >= A4_PRINT_WIDTH_PX * height_px

WiderThanPage(width_px, height_px) ==
    width_px * A4_PRINT_HEIGHT_PX > A4_PRINT_WIDTH_PX * height_px

calculate_image_layout(content) ==
    IF ~content.decodable \/ content.h = 0 THEN "width=100%"
    ELSE IF WiderThanPage(content.w, content.h)
         THEN IF content.w > A4_PRINT_WIDTH_PX
              THEN "width=100%"
              ELSE "width=" \o ToString(Percent(content.w)) \o "%"
         ELSE IF content.h > A4_PRINT_HEIGHT_PX
              THEN "height=23cm"
              ELSE "width=80%"

(***************************************************************************)
(* MERMAID_BLOCK_PATTERN = ```mermaid\s+(.*?)\s+``` with DOTALL (line 44). *)
(* At a start i with doc[i..i+2] = F M s the first \s+ takes the whole     *)
(* whitespace run, then gives characters back one at a time; for each      *)
(* length the lazy body grows until a whitespace run followed by a fence   *)
(* is found.                                                               *)
(***************************************************************************)
NoMatch == [start |-> 0, end |-> 0, body |-> <<>>]

RECURSIVE WsRunLen(_, _)
WsRunLen(doc, i) ==
    IF i <= Len(doc) /\ doc[i] = "s" THEN 1 + WsRunLen(doc, i + 1) ELSE 0

ClosingFences(doc, bodyStart) ==
    {j \in (bodyStart + 1)..Len(doc) : doc[j] = "F" /\ doc[j - 1] = "s"}

RECURSIVE BodyEnd(_, _, _)
BodyEnd(doc, bodyStart, p) ==
    IF p - 1 >= bodyStart /\ doc[p - 1] = "s"
    THEN BodyEnd(doc, bodyStart, p - 1)
    ELSE p - 1

RECURSIVE TryFrom(_, _, _)
TryFrom(doc, i, k) ==
    IF k = 0 THEN NoMatch
    ELSE LET bodyStart == i + 2 + k
             C == ClosingFences(doc, bodyStart)
         IN  IF C # {}
             THEN [start |-> i, end |-> Min(C),
                   body |-> SubSeq(doc, bodyStart, BodyEnd(doc, bodyStart, Min(C)))]
             ELSE TryFrom(doc, i, k - 1)

MatchAt(doc, i) ==
    IF i + 2 <= Len(doc) /\ doc[i] = "F" /\ doc[i + 1] = "M" /\ doc[i + 2] = "s"
    THEN TryFrom(doc, i, WsRunLen(doc, i + 2))
    ELSE NoMatch

Search(doc, from) ==
    LET S == {i \in from..Len(doc) : MatchAt(doc, i) # NoMatch}
    IN  IF S = {} THEN NoMatch ELSE MatchAt(doc, Min(S))

RECURSIVE FindAll(_, _)
FindAll(doc, from) ==
    LET m == Search(doc, from)
    IN  IF m = NoMatch THEN <<>> ELSE <<m>> \o FindAll(doc, m.end + 1)

\* str.strip() on the captured body (line 185).
RECURSIVE Strip(_)
Strip(s) ==
    IF s = <<>> THEN s
    ELSE IF Head(s) = "s" THEN Strip(Tail(s))
    ELSE IF s[Len(s)] = "s" THEN Strip(SubSeq(s, 1, Len(s) - 1))
    ELSE s

(***************************************************************************)
(* Artifact key (lines 145-148): abs(hash(graph_code)) under the run id.   *)
(* The interpreter's string hash is a fixed-width signed fingerprint,      *)
(* fixed for the life of the process; it is modelled by a polynomial hash  *)
(* of HashBits bits, read as a signed number, so that distinct texts may   *)
(* collide and abs() may fold h and -h together.                           *)
(***************************************************************************)
TokVal(c) ==
    CASE c = "F" -> 1 [] c = "M" -> 2 [] c = "s" -> 3 [] c = "a" -> 4 [] OTHER -> 5

RECURSIVE PolyHash(_, _)
PolyHash(code, h) ==
    IF code = <<>> THEN h
    ELSE PolyHash(Tail(code), (h * 31 + TokVal(Head(code))) % (2 ^ HashBits))

Hash(code) ==
    LET u == PolyHash(code, 0)
    IN  IF u >= 2 ^ (HashBits - 1) THEN u - 2 ^ HashBits ELSE u

ContentHash(code) == Abs(Hash(code))

(***************************************************************************)
(* The file system: a set of [path, content] with one entry per path.      *)
(***************************************************************************)
Exists(files, p) == \E f \in files : f.path = p

Content(files, p) == (CHOOSE f \in files : f.path = p).content

WriteFile(files, p, c) == {f \in files : f.path # p} \cup {[path |-> p, content |-> c]}

Unlink(files, p) == {f \in files : f.path # p}

ImageFiles(files) == {f \in files : IsImage(f.path)}

Png(w, h) == [complete |-> TRUE, decodable |-> TRUE, w |-> w, h |-> h]

MdText == [complete |-> TRUE, decodable |-> FALSE, w |-> 0, h |-> 0]

\* What a write that fails part-way leaves: a truncated file, taken to be
\* one that Image.open cannot decode.
Truncated(c) == [complete |-> FALSE, decodable |-> FALSE, w |-> 0, h |-> 0]

\* The image the rendering service answers with on HTTP 200: the service
\* renders a diagram text to an image that the text determines.  Body A
\* renders square and small, every other text tall.
Render(code) == IF code = <<"a">> THEN Png(400, 400) ELSE Png(300, 900)

\* How a write to disk ends: completely, raising before the file is
\* created, or raising after part of the bytes were written.
WriteFaults == {"ok", "fail_before", "fail_partial"}

\* Path.write_bytes / Path.write_text: [ok, fs].  Writing into a directory
\* that does not exist raises FileNotFoundError.
WriteTo(files, dirExists, p, c, wr) ==
    IF ~dirExists \/ wr = "fail_before" THEN [ok |-> FALSE, fs |-> files]
    ELSE IF wr = "ok" THEN [ok |-> TRUE, fs |-> WriteFile(files, p, c)]
    ELSE [ok |-> FALSE,
          fs |-> WriteFile(files, p, Truncated(c))]

(***************************************************************************)
(* _download_mermaid_image (lines 132-166): the set of its possible        *)
(* outcomes [ret, fs, got, served, created].  ret: a path was returned     *)
(* (FALSE: None); got: requests.get was called; served: the service        *)
(* answered 200 and the disk did not fail on its own; created: the call    *)
(* left a new file at the path.  A non-200 status and an exception of      *)
(* requests.get are the same outcome: None, nothing written.               *)
(***************************************************************************)
\* Variant: no reuse of an existing file.
CacheHitNever(files, p) == FALSE

CacheHit(files, p) == Exists(files, p)

download_mermaid_image(files, dirExists, p, code) ==
    IF CacheHit(files, p)
    THEN {[ret |-> TRUE, fs |-> files, got |-> FALSE, served |-> FALSE,
           created |-> FALSE]}
    ELSE {[ret |-> FALSE, fs |-> files, got |-> TRUE, served |-> FALSE,
           created |-> FALSE]}
         \cup
         {LET w == WriteTo(files, dirExists, p, Render(code), wr)
          IN  [ret |-> w.ok, fs |-> w.fs, got |-> TRUE, served |-> wr = "ok",
               created |-> Exists(w.fs, p) /\ ~Exists(files, p)] :
          wr \in WriteFaults}

(***************************************************************************)
(* replace_match (lines 184-207).  None and "" are both falsy in           *)
(* `if force_width:`.                                                      *)
(***************************************************************************)
NoneVal == "None"

Truthy(x) == x # NoneVal /\ x # ""

Join(attrs) ==
    IF Len(attrs) = 0 THEN ""
    ELSE IF Len(attrs) = 1 THEN attrs[1]
    ELSE attrs[1] \o " " \o attrs[2]

\* Variant: the computed directive appended even next to overrides.
SizeAttrsAlwaysComputed(force_width, force_height, content) ==
    (IF Truthy(force_width) THEN <<"width=" \o force_width>> ELSE <<>>)
    \o (IF Truthy(force_height) THEN <<"height=" \o force_height>> ELSE <<>>)
    \o <<calculate_image_layout(content)>>

SizeAttrs(force_width, force_height, content) ==
    LET forced ==
            (IF Truthy(force_width) THEN <<"width=" \o force_width>> ELSE <<>>)
            \o (IF Truthy(force_height) THEN <<"height=" \o force_height>> ELSE <<>>)
    IN  IF forced = <<>> THEN <<calculate_image_layout(content)>> ELSE forced

ImageToken(p, attrs) == [c |-> "img", path |-> p, attrs |-> attrs]

ImageReference(p, attrs) ==
    <<T("s"), T("s"), ImageToken(p, attrs), T("s"), T("s")>>

\* Variant: a failed block removed from the output.
FallbackTextDropped(doc, m) == <<>>

FallbackText(doc, m) == Lift(SubSeq(doc, m.start, m.end))

replace_match(doc, m, o, p, force_width, force_height) ==
    IF ~o.ret THEN FallbackText(doc, m)
    ELSE ImageReference(p, Join(SizeAttrs(force_width, force_height,
                                          Content(o.fs, p))))

AppendImage(images, o, p) == IF o.ret THEN Append(images, p) ELSE images

(***************************************************************************)
(* _cleanup (lines 212-228).  failSet: the paths whose unlink raises       *)
(* OSError; rmdirFails: rmdir raises OSError.                              *)
(***************************************************************************)
RECURSIVE CleanupFiles(_, _, _)
\* Variant: the first deletion failure ends the loop and propagates.
OnUnlinkErrorAbort(rest, files, failSet) == [fs |-> files, raised |-> TRUE]

OnUnlinkError(rest, files, failSet) == CleanupFiles(rest, files, failSet)

CleanupFiles(paths, files, failSet) ==
    IF paths = <<>> THEN [fs |-> files, raised |-> FALSE]
    ELSE IF Exists(files, Head(paths))
         THEN IF Head(paths) \in failSet
              THEN OnUnlinkError(Tail(paths), files, failSet)
              ELSE CleanupFiles(Tail(paths), Unlink(files, Head(paths)), failSet)
         ELSE CleanupFiles(Tail(paths), files, failSet)

RemoveImagesDir(files, dirExists, rmdirFails) ==
    IF dirExists /\ ImageFiles(files) = {} /\ ~rmdirFails THEN FALSE ELSE dirExists

cleanup(paths, files, dirExists, failSet, rmdirFails) ==
    LET c == CleanupFiles(paths, files, failSet)
    IN  [fs |-> c.fs, raised |-> c.raised,
         dir |-> IF c.raised THEN dirExists
                 ELSE RemoveImagesDir(c.fs, dirExists, rmdirFails)]

(***************************************************************************)
(* Inputs.                                                                 *)
(***************************************************************************)
Segments ==
    { <<"a">>,                              \* ordinary text
      <<"F", "M", "s", "a", "s", "F">>,     \* a diagram block with body A
      <<"F", "M", "s", "b", "s", "F">>,     \* a diagram block with body B
      <<"F", "M", "s">> }                   \* an opening fence alone

\* The documents of exactly n segments, as pairs <<n, text>>.
DocsOf(n) == {<<n, Flatten(ss)>> : ss \in {q \in SeqsUpTo(Segments, n) : Len(q) = n}}

\* The documents of at most n segments, for every n within the bound.
DocsUpTo == [n \in 0..MaxWork |-> UNION {DocsOf(k) : k \in 0..n}]

Docs(n) == DocsUpTo[n]

Overrides == {NoneVal, "", "50%"}

HeightOverrides == {NoneVal, "", "10cm"}

MkCall(op, doc, run, fw, fh, cl, keep) ==
    [op |-> op, md_content |-> doc, unique_run_id |-> run,
     force_width |-> fw, force_height |-> fh,
     cleanup |-> cl, keep_intermediate |-> keep]

MkResult(op, kind, exc, tried, substituted, ran, tracker, failSet, rmdirFailed) ==
    [op |-> op, kind |-> kind, exc |-> exc, tried |-> tried,
     substituted |-> substituted,
     cleanup_ran |-> ran, tracker |-> tracker, del_failed |-> failSet,
     rmdir_failed |-> rmdirFailed]

(***************************************************************************)
(* __init__ / _ensure_directories (lines 62-74): both directories exist    *)
(* and the images directory is empty.                                      *)
(***************************************************************************)
Init ==
    /\ fs = {}
    /\ images_dir_exists = TRUE
    /\ pc = "idle"
    /\ call = MkCall("none", <<>>, 0, NoneVal, NoneVal, FALSE, FALSE)
    /\ pos = 1
    /\ processed_content = <<>>
    /\ generated_images = <<>>
    /\ log = <<>>
    /\ result = MkResult("none", "none", "none", "none", FALSE, FALSE, <<>>, {}, FALSE)
    /\ calls = 0
    /\ segs_used = 0
    /\ img = Png(1, 1)
    /\ layout = ""

\* A call may start when none is in progress; each call counts as one unit
\* of work and each segment of its document as one more.
CanStart == pc = "idle" /\ calls + segs_used < MaxWork

\* The segments left for the document of the next call.
SegsLeft == MaxWork - calls - segs_used - 1

\* uuid4 run identifiers are taken to be fresh for each convert; a direct
\* caller of _process_mermaid_diagrams passes its own identifier, the same
\* one in every call.
FreshRunId == calls + 1

RunIds == {0}

EnterSub(op, d, run, fw, fh, cl, keep) ==
    /\ calls' = calls + 1
    /\ segs_used' = segs_used + d[1]
    /\ pc' = "sub"
    /\ call' = MkCall(op, d[2], run, fw, fh, cl, keep)
    /\ pos' = 1
    /\ processed_content' = <<>>
    /\ generated_images' = <<>>
    /\ log' = <<>>
    /\ result' = MkResult("none", "none", "none", "none", FALSE, FALSE, <<>>, {}, FALSE)
    /\ UNCHANGED <<fs, images_dir_exists, layoutVars>>

\* A direct call of _process_mermaid_diagrams (lines 168-182).
ProcessStart ==
    /\ CanStart
    /\ \E d \in Docs(SegsLeft), run \in RunIds,
          fw \in Overrides, fh \in HeightOverrides :
         EnterSub("process", d, run, fw, fh, FALSE, FALSE)

\* convert up to the call of _process_mermaid_diagrams (lines 249-262): the
\* input exists and is read; no overrides are passed on.
ConvertStart ==
    /\ CanStart
    /\ \E d \in Docs(SegsLeft), cl \in BOOLEAN, keep \in BOOLEAN :
         EnterSub("convert", d, FreshRunId, NoneVal, NoneVal, cl, keep)

\* The text between the previous match and this one (or the end) is copied
\* to the output by re.sub.
\* Variant: the first token after a match lost.
CopyThroughSkipping(doc, from, to) == Lift(SubSeq(doc, from + 1, to))

CopyThrough(doc, from, to) == Lift(SubSeq(doc, from, to))

\* One invocation of replace_match by MERMAID_BLOCK_PATTERN.sub
\* (lines 184-209).
ReplaceMatch ==
    /\ pc = "sub"
    /\ Search(call.md_content, pos) # NoMatch
    /\ LET doc == call.md_content
           m == Search(doc, pos)
           graph_code == Strip(m.body)
           p == ImagePath(call.unique_run_id, ContentHash(graph_code))
       IN  \E o \in download_mermaid_image(fs, images_dir_exists, p, graph_code) :
             LET before == processed_content \o CopyThrough(doc, pos, m.start - 1)
                 rep == replace_match(doc, m, o, p, call.force_width,
                                      call.force_height)
             IN  /\ fs' = o.fs
                 /\ processed_content' = before \o rep
                 /\ generated_images' = AppendImage(generated_images, o, p)
                 /\ pos' = m.end + 1
                 /\ log' = Append(log,
                        [start |-> m.start, end |-> m.end, code |-> graph_code,
                         path |-> p, got |-> o.got, served |-> o.served,
                         ret |-> o.ret, created |-> o.created,
                         outAt |-> Len(before) + 1, outLen |-> Len(rep)])
    /\ UNCHANGED <<images_dir_exists, pc, call, result, calls, segs_used,
                   layoutVars>>

\* The text after the last match is copied and sub returns (lines 209-210).
SubResult == processed_content \o CopyThrough(call.md_content, pos, Len(call.md_content))

SubDone == pc = "sub" /\ Search(call.md_content, pos) = NoMatch

ProcessReturn ==
    /\ SubDone
    /\ call.op = "process"
    /\ processed_content' = SubResult
    /\ pos' = Len(call.md_content) + 1
    /\ pc' = "idle"
    /\ result' = MkResult("process", "returned", "none", "none", TRUE, FALSE, <<>>, {}, FALSE)
    /\ UNCHANGED <<fs, images_dir_exists, call, generated_images, log,
                   calls, segs_used, layoutVars>>

(***************************************************************************)
(* convert (lines 230-314).                                                *)
(***************************************************************************)
\* The except clause re-raises what it caught (lines 308-310).
Reraise(exc) == exc

\* The finally clause (lines 311-314): [fs, dir, raised, ran].
Finally(cl, paths, files, dirExists, failSet, rmdirFails) ==
    IF cl
    THEN LET c == cleanup(paths, files, dirExists, failSet, rmdirFails)
         IN  [fs |-> c.fs, dir |-> c.dir, raised |-> c.raised, ran |-> TRUE]
    ELSE [fs |-> files, dir |-> dirExists, raised |-> FALSE, ran |-> FALSE]

\* What the caller of convert sees, given the exception of the try block
\* ("none": it returned) and what the finally clause did.
ConvertResult(exc, raisedInFinally, ran, tracker, substituted, failSet, rmdirFailed) ==
    MkResult("convert",
             IF raisedInFinally \/ Reraise(exc) # "none" THEN "raised" ELSE "returned",
             IF raisedInFinally THEN "OSError" ELSE Reraise(exc),
             exc, substituted, ran, tracker, failSet, rmdirFailed)

\* rmdir is reached, and can fail, only on an existing empty directory.
RmdirReached(cl, files, dirExists) == cl /\ dirExists /\ ImageFiles(files) = {}

\* The input file does not exist (lines 254-255): raised before the try.
ConvertMissingInput ==
    /\ CanStart
    /\ calls' = calls + 1
    /\ \E cl \in BOOLEAN :
         call' = MkCall("convert", <<>>, FreshRunId, NoneVal, NoneVal, cl, FALSE)
    /\ result' = MkResult("convert", "raised", "FileNotFoundError", "none", FALSE,
                          FALSE, <<>>, {}, FALSE)
    /\ pos' = 1
    /\ processed_content' = <<>>
    /\ generated_images' = <<>>
    /\ log' = <<>>
    /\ UNCHANGED <<fs, images_dir_exists, pc, segs_used, layoutVars>>

\* read_text raises (line 259): except, then finally with an empty tracker.
ConvertReadFails ==
    /\ CanStart
    /\ calls' = calls + 1
    /\ \E cl \in BOOLEAN, rmdirFails \in BOOLEAN :
         /\ (rmdirFails => RmdirReached(cl, fs, images_dir_exists))
         /\ call' = MkCall("convert", <<>>, FreshRunId, NoneVal, NoneVal, cl, FALSE)
         /\ fs' = Finally(cl, <<>>, fs, images_dir_exists, {}, rmdirFails).fs
         /\ images_dir_exists' =
                Finally(cl, <<>>, fs, images_dir_exists, {}, rmdirFails).dir
         /\ result' = ConvertResult("read_text",
                Finally(cl, <<>>, fs, images_dir_exists, {}, rmdirFails).raised,
                Finally(cl, <<>>, fs, images_dir_exists, {}, rmdirFails).ran,
                <<>>, FALSE, {}, rmdirFails)
    /\ pos' = 1
    /\ processed_content' = <<>>
    /\ generated_images' = <<>>
    /\ log' = <<>>
    /\ UNCHANGED <<pc, segs_used, layoutVars>>

\* How write_text of the Markdown file ends.
MdWriteFaults == {"ok", "fail_before"}

\* _process_mermaid_diagrams returns into convert, which writes the Markdown
\* file, runs the conversion engine and cleans up (lines 262-314).  The
\* normalization pass changes only the text handed to the engine, of which
\* nothing is kept here.
ConvertFinish ==
    /\ SubDone
    /\ call.op = "convert"
    /\ processed_content' = SubResult
    /\ pos' = Len(call.md_content) + 1
    /\ pc' = "idle"
    /\ \E wr \in MdWriteFaults, pandocFails \in BOOLEAN, rmdirFails \in BOOLEAN :
         LET run == call.unique_run_id
             md == IF call.keep_intermediate THEN ProcessedMdPath(run)
                   ELSE TempMdPath(run)
             wok == WriteTo(fs, TRUE, md, MdText, wr).ok
             wfs == WriteTo(fs, TRUE, md, MdText, wr).fs
             tracker == generated_images
                        \o (IF wok /\ ~call.keep_intermediate THEN <<md>> ELSE <<>>)
             exc == IF ~wok THEN "write_text"
                    ELSE IF pandocFails THEN "pandoc" ELSE "none"
             deletable == IF call.cleanup
                          THEN {q \in Range(tracker) : Exists(wfs, q)} ELSE {}
         IN  /\ (~wok => ~pandocFails)
             /\ \E failSet \in {x \in SUBSET deletable :
                                   Cardinality(x) <= MaxDelFailures} :
                  /\ (rmdirFails =>
                        RmdirReached(call.cleanup,
                            Finally(call.cleanup, tracker, wfs, images_dir_exists,
                                    failSet, FALSE).fs, images_dir_exists))
                  /\ fs' = Finally(call.cleanup, tracker, wfs, images_dir_exists,
                                   failSet, rmdirFails).fs
                  /\ images_dir_exists' =
                         Finally(call.cleanup, tracker, wfs, images_dir_exists,
                                 failSet, rmdirFails).dir
                  /\ result' = ConvertResult(exc,
                         Finally(call.cleanup, tracker, wfs, images_dir_exists,
                                 failSet, rmdirFails).raised,
                         Finally(call.cleanup, tracker, wfs, images_dir_exists,
                                 failSet, rmdirFails).ran,
                         tracker, TRUE, failSet, rmdirFails)
    /\ UNCHANGED <<call, generated_images, log, calls, segs_used,
                   layoutVars>>

Next ==
    \/ ProcessStart
    \/ ConvertStart
    \/ ConvertMissingInput
    \/ ConvertReadFails
    \/ ReplaceMatch
    \/ ProcessReturn
    \/ ConvertFinish

Spec == Init /\ [][Next]_vars

(***************************************************************************)
(* Claims about the substitution engine and the pipeline driver (checked   *)
(* under Spec).  log[i] is the i-th replace_match invocation of the call   *)
(* in progress or last finished: the span [start, end] it was given, the   *)
(* trimmed text (code), the artifact path, whether requests.get was called *)
(* (got), whether the service answered 200 with no disk fault (served),    *)
(* whether a path was returned (ret), whether the call left a new file     *)
(* (created), and where its replacement sits in the output (outAt,         *)
(* outLen).                                                                *)
(***************************************************************************)
PercentWidths == {"width=" \o ToString(n) \o "%" : n \in 0..100}

\* _process_mermaid_diagrams has returned in the last call.
Substituted == pc = "idle" /\ result.substituted

\* The replacement that log[i] put into the output.
Replacement(i) ==
    SubSeq(processed_content, log[i].outAt, log[i].outAt + log[i].outLen - 1)

IsImageReference(r, p) ==
    /\ Len(r) = 5
    /\ r[1] = T("s") /\ r[2] = T("s") /\ r[4] = T("s") /\ r[5] = T("s")
    /\ r[3].c = "img" /\ r[3].path = p

RECURSIVE ReturnedPaths(_)
ReturnedPaths(l) ==
    IF l = <<>> THEN <<>>
    ELSE (IF Head(l).ret THEN <<Head(l).path>> ELSE <<>>) \o ReturnedPaths(Tail(l))

\* C1: every block whose render failed (None returned) stands in the output
\* as its original fenced text and adds no artifact; every block whose
\* render succeeded is replaced by an image reference and adds exactly its
\* path; every located block is processed, and the call returns.
C1_FailedBlocksKept ==
    /\ \A i \in DOMAIN log :
         IF log[i].ret
         THEN IsImageReference(Replacement(i), log[i].path)
         ELSE Replacement(i) = Lift(SubSeq(call.md_content, log[i].start, log[i].end))
    /\ generated_images = ReturnedPaths(log)
    /\ (pc = "idle" /\ result.op = "process" => result.kind = "returned")
    /\ (Substituted =>
          LET spans == FindAll(call.md_content, 1)
          IN  /\ Len(log) = Len(spans)
              /\ \A i \in DOMAIN log : log[i].start = spans[i].start)

\* C1 witness: a returned call in which a block failed after a request and a
\* later block was replaced by an image.
C1_Witness ==
    /\ Substituted
    /\ \E i, j \in DOMAIN log : i < j /\ log[i].got /\ ~log[i].ret /\ log[j].ret

\* C3 as stated: within one run at most one HTTP GET is issued per diagram
\* text, whether the calls succeed or fail.
C3_Original ==
    \A i, j \in DOMAIN log :
        (i < j /\ log[i].code = log[j].code /\ log[i].got) => ~log[j].got

\* C3 amended: within one run, once a request for a diagram text has left a
\* file at its artifact path, no later block with the same text issues a
\* request and each such block is given that same path; so at most one
\* request per text leaves a file.
C3_AtMostOneStoredFetch ==
    \A i, j \in DOMAIN log :
        (i < j /\ log[i].code = log[j].code /\ (log[i].ret \/ log[i].created))
        => /\ ~log[j].got
           /\ log[j].ret
           /\ log[j].path = log[i].path

\* C3 witness: a text was fetched and stored, and a later block with the
\* same text was served from the file without a request.
C3_Witness ==
    \E i, j \in DOMAIN log :
        /\ i < j /\ log[i].code = log[j].code
        /\ log[i].got /\ log[i].ret /\ ~log[j].got /\ log[j].ret

\* The attribute string of the image reference that log[i] produced.
AttrsOf(i) == processed_content[log[i].outAt + 2].attrs

Directives == PercentWidths \cup {"height=23cm"}

ForcedAttrs(fw, fh, supplied(_)) ==
    Join((IF supplied(fw) THEN <<"width=" \o fw>> ELSE <<>>)
         \o (IF supplied(fh) THEN <<"height=" \o fh>> ELSE <<>>))

NotNone(x) == x # NoneVal

NonEmpty(x) == x # NoneVal /\ x # ""

OverridesHonoured(supplied(_)) ==
    \A i \in DOMAIN log :
        log[i].ret =>
            IF supplied(call.force_width) \/ supplied(call.force_height)
            THEN AttrsOf(i) = ForcedAttrs(call.force_width, call.force_height, supplied)
            ELSE AttrsOf(i) \in Directives

\* C6 as stated: when force_width and/or force_height is supplied (is not
\* None), every rendered diagram carries exactly the supplied override(s)
\* and no computed directive; when neither is supplied, exactly one
\* computed directive.
C6_Original == OverridesHonoured(NotNone)

\* C6 amended: the same, with "supplied" meaning a non-empty string: an
\* override that is None or "" counts as not supplied.
C6_NonEmptyOverridesHonoured == OverridesHonoured(NonEmpty)

\* C6 witness: both overrides were given and a rendered diagram carries
\* both, on an image whose computed directive would have been another.
C6_Witness ==
    /\ call.force_width = "50%" /\ call.force_height = "10cm"
    /\ \E i \in DOMAIN log : log[i].ret /\ AttrsOf(i) = "width=50% height=10cm"

\* The output with the attributes of its image references blanked.
Erase(out) ==
    [k \in 1..Len(out) |->
        IF out[k].c = "img" THEN ImageToken(out[k].path, "") ELSE out[k]]

\* The input rebuilt span by span: the text before each located span, then
\* the span itself (render failed) or a blank-line-surrounded image
\* reference, then the text after the last span.
RECURSIVE Rebuild(_, _, _, _)
Rebuild(doc, from, spans, k) ==
    IF spans = <<>> THEN Lift(SubSeq(doc, from, Len(doc)))
    ELSE Lift(SubSeq(doc, from, Head(spans).start - 1))
         \o (IF log[k].ret
             THEN <<T("s"), T("s"), ImageToken(log[k].path, ""), T("s"), T("s")>>
             ELSE Lift(SubSeq(doc, Head(spans).start, Head(spans).end)))
         \o Rebuild(doc, Head(spans).end + 1, Tail(spans), k + 1)

\* C7: the returned text is the input with each located span replaced, in
\* order, by itself or by a blank-line-surrounded image reference, all
\* other text unchanged; without diagram blocks the output is the input
\* and no artifact is returned.
C7_OnlySpansReplaced ==
    Substituted =>
        LET spans == FindAll(call.md_content, 1)
        IN  /\ Len(log) = Len(spans)
            /\ Erase(processed_content) = Rebuild(call.md_content, 1, spans, 1)
            /\ (spans = <<>> =>
                  processed_content = Lift(call.md_content) /\ generated_images = <<>>)

\* C7 witness: a returned call on a document with text before and after a
\* span that was replaced by an image.
C7_Witness ==
    /\ Substituted
    /\ \E i \in DOMAIN log :
         log[i].ret /\ log[i].start > 1 /\ log[i].end < Len(call.md_content)

\* The last replace_match invocation, while sub is still running.
LastEntry == log[Len(log)]

InSub == pc = "sub" /\ log # <<>>

\* C9: whenever _download_mermaid_image returns None no file is left at the
\* artifact path, and every cache hit returns a completely written file.
C9_NoFileAfterFailure ==
    InSub =>
        /\ (~LastEntry.ret => ~Exists(fs, LastEntry.path))
        /\ (LastEntry.ret /\ ~LastEntry.got => Content(fs, LastEntry.path).complete)

\* C10: in every call on the instance, a block for which the service
\* answers 200 (the disk not failing on its own) is written to its artifact
\* path and replaced by an image reference.
C10_ServedBlockSubstituted ==
    InSub =>
        (LastEntry.served =>
            /\ LastEntry.ret
            /\ Exists(fs, LastEntry.path)
            /\ IsImageReference(Replacement(Len(log)), LastEntry.path))

\* A convert call has ended after entering its try block.
ConvertEnded ==
    pc = "idle" /\ result.op = "convert" /\ result.exc # "FileNotFoundError"

\* C2: after a convert call with cleanup=true in which no deletion failed,
\* no image file produced in the run exists and the images directory is
\* gone if empty; after one with cleanup=false every artifact of a
\* successful render of the run exists.
C2_ArtifactsReleased ==
    ConvertEnded =>
        /\ (call.cleanup /\ result.del_failed = {} /\ ~result.rmdir_failed =>
              /\ \A i \in DOMAIN log : log[i].created => ~Exists(fs, log[i].path)
              /\ (ImageFiles(fs) = {} => ~images_dir_exists))
        /\ (~call.cleanup =>
              \A i \in DOMAIN log : (log[i].got /\ log[i].ret) => Exists(fs, log[i].path))

\* C8: when a stage inside the try block of convert fails and cleanup=true,
\* _cleanup has run when the caller sees the exception, the exception is
\* the one that was raised, _cleanup raises nothing of its own, and every
\* tracked file whose deletion did not fail is gone.
C8_CleanupThenReraise ==
    (ConvertEnded /\ call.cleanup) =>
        /\ result.cleanup_ran
        /\ result.exc # "OSError"
        /\ result.exc = result.tried
        /\ (result.tried # "none" => result.kind = "raised")
        /\ \A q \in Range(result.tracker) : q \notin result.del_failed => ~Exists(fs, q)

\* C8 witness: the conversion engine failed with cleanup=true, one tracked
\* file could not be deleted and another tracked file was deleted.
C8_Witness ==
    /\ ConvertEnded /\ call.cleanup
    /\ result.tried = "pandoc" /\ result.kind = "raised"
    /\ \E q, r \in Range(result.tracker) :
         q # r /\ q \in result.del_failed /\ Exists(fs, q) /\ ~Exists(fs, r)

(***************************************************************************)
(* The layout sizer on its own: _calculate_image_layout applied to every   *)
(* image size within the bounds, and to a file that cannot be decoded.     *)
(***************************************************************************)
Undecodable == [complete |-> TRUE, decodable |-> FALSE, w |-> 0, h |-> 0]

LayoutInputs ==
    {Png(w, h) : w \in 0..MaxWidthPx, h \in 0..MaxHeightPx} \cup {Undecodable}

InitLayout ==
    /\ fs = {}
    /\ images_dir_exists = TRUE
    /\ pc = "idle"
    /\ call = MkCall("none", <<>>, 0, NoneVal, NoneVal, FALSE, FALSE)
    /\ pos = 1
    /\ processed_content = <<>>
    /\ generated_images = <<>>
    /\ log = <<>>
    /\ result = MkResult("none", "none", "none", "none", FALSE, FALSE, <<>>, {}, FALSE)
    /\ calls = 0
    /\ segs_used = 0
    /\ img \in LayoutInputs
    /\ layout = ""

CalculateImageLayout ==
    /\ layout = ""
    /\ layout' = calculate_image_layout(img)
    /\ UNCHANGED <<pipeVars, img>>

NextLayout == CalculateImageLayout

SpecLayout == InitLayout /\ [][NextLayout]_vars

(***************************************************************************)
(* Claims about the layout sizer (checked under SpecLayout).               *)
(***************************************************************************)
LayoutDone == layout # ""

\* C4: for every decodable image of size (w, h), w, h >= 1, against the
\* 624x888 page: w*888 > 624*h and w > 624 gives width=100%; w*888 > 624*h
\* and w <= 624 gives a computed percentage width; otherwise (the exact
\* ratio included) h > 888 gives height=23cm and h <= 888 gives width=80%.
\* A file that cannot be decoded gives width=100%.
C4_LayoutBranches ==
    LayoutDone =>
        IF ~img.decodable THEN layout = "width=100%"
        ELSE (img.w >= 1 /\ img.h >= 1) =>
               IF img.w * 888 > 624 * img.h
               THEN IF img.w > 624 THEN layout = "width=100%"
                    ELSE layout \in PercentWidths
               ELSE IF img.h > 888 THEN layout = "height=23cm"
                    ELSE layout = "width=80%"

\* C4 witness: the exact-ratio image 26x37 was sized, and took the portrait
\* branch.
C4_Witness ==
    LayoutDone /\ img.decodable /\ img.w = 26 /\ img.h = 37 /\ layout = "width=80%"

\* The landscape image no wider than the page: the case C5 is about.
LandscapeFits ==
    /\ LayoutDone
    /\ img.decodable /\ img.w >= 1 /\ img.h >= 1
    /\ img.w * 888 > 624 * img.h
    /\ img.w <= 624

\* p is the nearest integer to 100*w/624, ties to the even one (round()).
IsNearest(p, w) ==
    \/ 2 * Abs(100 * w - 624 * p) < 624
    \/ 2 * Abs(100 * w - 624 * p) = 624 /\ p % 2 = 0

\* C5 as stated: for every landscape image with w <= 624 the percentage is
\* round(w / 624 * 100), the nearest integer.
C5_Original ==
    LandscapeFits =>
        \E n \in 0..100 : layout = "width=" \o ToString(n) \o "%" /\ IsNearest(n, img.w)

\* C5 amended: for every landscape image with w <= 624 the percentage is
\* 100*w/624 truncated to an integer: the n with 624*n <= 100*w < 624*(n+1).
C5_PercentTruncated ==
    LandscapeFits =>
        \E n \in 0..100 :
            /\ layout = "width=" \o ToString(n) \o "%"
            /\ 624 * n <= 100 * img.w
            /\ 100 * img.w < 624 * (n + 1)

\* C5 witness: the 400x400 image was sized at 64 percent.
C5_Witness == LandscapeFits /\ img.w = 400 /\ img.h = 400 /\ layout = "width=64%"

====
